---- MODULE Spec2Model ----
(***************************************************************************)
(* env-type-generator: the typed variable model, the type coercion engine, *)
(* the env-file loader, the environment validator, the schema validator    *)
(* and the drift comparator (src/env_type_generator/config.py,             *)
(* validation.py).                                                         *)
(*                                                                         *)
(* Representation.  A Python str is a sequence of one-character strings,   *)
(* so that strip, lower, startswith, split and the code-point ordering of  *)
(* sorted() are computed, not assumed.  An Optional value is a sequence of *)
(* length at most one: <<>> is None, <<v>> is the value v.  A dict is a    *)
(* sequence of <<key, value>> pairs in insertion order.  A formatted       *)
(* message is a record holding the message's kind (its fixed text) and     *)
(* every value interpolated into it.                                       *)
(***************************************************************************)
EXTENDS Naturals, Integers, Sequences, FiniteSets, TLC

VARIABLES pc, call, result

vars == <<pc, call, result>>

-----------------------------------------------------------------------------
(* Characters and strings                                                  *)

\* The printable ASCII characters in code-point order, from U+0020.  The
\* double quote, the backslash and the grave accent are held by the
\* placeholders QUOTE, BACKSLASH and BACKTICK, which keep the positions of the other characters.
Printable ==
    <<" ", "!", "QUOTE", "#", "$", "%", "&", "'", "(", ")", "*", "+", ",", "-",
      ".", "/", "0", "1", "2", "3", "4", "5", "6", "7", "8", "9", ":", ";",
      "<", "=", ">", "?", "@", "A", "B", "C", "D", "E", "F", "G", "H", "I",
      "J", "K", "L", "M", "N", "O", "P", "Q", "R", "S", "T", "U", "V", "W",
      "X", "Y", "Z", "[", "BACKSLASH", "]", "^", "_", "BACKTICK", "a", "b", "c", "d", "e",
      "f", "g", "h", "i", "j", "k", "l", "m", "n", "o", "p", "q", "r", "s",
      "t", "u", "v", "w", "x", "y", "z", "{", "|", "}", "~">>

\* ord(c)
Ord(c) ==
    IF c = "\t" THEN 9
    ELSE IF c = "\n" THEN 10
    ELSE IF c = "\r" THEN 13
    ELSE 31 + (CHOOSE i \in 1..Len(Printable) : Printable[i] = c)

\* chr(n) for a printable n
Chr(n) == Printable[n - 31]

\* str.lower() on one character
LowerChar(c) == IF Ord(c) >= 65 /\ Ord(c) <= 90 THEN Chr(Ord(c) + 32) ELSE c

\* str.lower()
Lower(s) == [i \in 1..Len(s) |-> LowerChar(s[i])]

\* The characters str.strip() removes.
Whitespace == {" ", "\t", "\n", "\r"}

RECURSIVE LStrip(_)
LStrip(s) ==
    IF s # <<>> /\ Head(s) \in Whitespace THEN LStrip(Tail(s)) ELSE s

RECURSIVE RStrip(_)
RStrip(s) ==
    IF s # <<>> /\ s[Len(s)] \in Whitespace
    THEN RStrip(SubSeq(s, 1, Len(s) - 1))
    ELSE s

\* str.strip()
Strip(s) == RStrip(LStrip(s))

\* str.startswith(prefix)
StartsWith(s, prefix) ==
    /\ Len(s) >= Len(prefix)
    /\ SubSeq(s, 1, Len(prefix)) = prefix

\* str.endswith(suffix)
EndsWith(s, suffix) ==
    /\ Len(s) >= Len(suffix)
    /\ SubSeq(s, Len(s) - Len(suffix) + 1, Len(s)) = suffix

\* c in s
Contains(s, c) == \E i \in 1..Len(s) : s[i] = c

\* str.find(c) + 1, for a c that occurs in s
FirstIndex(s, c) ==
    CHOOSE i \in 1..Len(s) : s[i] = c /\ \A j \in 1..(i - 1) : s[j] # c

\* a < b on str: lexicographic by code point
StrLess(a, b) ==
    \/ /\ Len(a) < Len(b)
       /\ SubSeq(b, 1, Len(a)) = a
    \/ \E i \in 1..Len(a) :
          /\ i <= Len(b)
          /\ SubSeq(a, 1, i - 1) = SubSeq(b, 1, i - 1)
          /\ Ord(a[i]) < Ord(b[i])

\* sorted(S) for a set S of str
RECURSIVE Sorted(_)
Sorted(S) ==
    IF S = {} THEN <<>>
    ELSE LET m == CHOOSE x \in S : \A y \in S \ {x} : StrLess(x, y)
         IN  <<m>> \o Sorted(S \ {m})

\* The elements of a sequence.
Range(s) == {s[i] : i \in 1..Len(s)}

-----------------------------------------------------------------------------
(* dict                                                                    *)

\* d.keys() as a set
Keys(d) == {d[i][1] : i \in 1..Len(d)}

\* d[k] for a k in d
Get(d, k) == d[CHOOSE i \in 1..Len(d) : d[i][1] = k][2]

\* d[k] = v: a new key is appended, an old key keeps its position
Put(d, k, v) ==
    IF k \in Keys(d)
    THEN [i \in 1..Len(d) |-> IF d[i][1] = k THEN <<k, v>> ELSE d[i]]
    ELSE Append(d, <<k, v>>)

\* ByName with the bug that the first declaration of a name is kept
\* (dict.setdefault) instead of the last.
RECURSIVE ByNameFirstWins(_)
ByNameFirstWins(variables) ==
    IF variables = <<>> THEN <<>>
    ELSE LET n    == Len(variables)
             rest == ByNameFirstWins(SubSeq(variables, 1, n - 1))
         IN  IF variables[n].name \in Keys(rest) THEN rest
             ELSE Append(rest, <<variables[n].name, variables[n]>>)

\* {v.name: v for v in variables}
RECURSIVE ByName(_)
ByName(variables) ==
    IF variables = <<>> THEN <<>>
    ELSE LET n == Len(variables)
         IN  Put(ByName(SubSeq(variables, 1, n - 1)),
                 variables[n].name, variables[n])

\* config.environments.get(env_name, [])
EnvGet(config, env_name) ==
    IF env_name \in Keys(config.environments)
    THEN Get(config.environments, env_name)
    ELSE <<>>

-----------------------------------------------------------------------------
(* Literal grammars used by the type coercion engine.  Both are computed   *)
(* on ASCII text; JsonText covers JSON scalars, which are all the JSON     *)
(* texts that hold no quote, bracket or brace.                             *)

IsDigit(c) == Ord(c) >= 48 /\ Ord(c) <= 57

\* one or more digits
Digits(s) == s # <<>> /\ \A i \in 1..Len(s) : IsDigit(s[i])

\* digit (["_"] digit)*
DigitPart(s) ==
    /\ s # <<>>
    /\ IsDigit(s[1])
    /\ IsDigit(s[Len(s)])
    /\ \A i \in 1..Len(s) :
          \/ IsDigit(s[i])
          \/ s[i] = "_" /\ IsDigit(s[i - 1]) /\ IsDigit(s[i + 1])

Before(s, i) == SubSeq(s, 1, i - 1)

After(s, i) == SubSeq(s, i + 1, Len(s))

\* an optional leading sign from signs, removed
Unsigned(s, signs) == IF s # <<>> /\ s[1] \in signs THEN Tail(s) ELSE s

\* digitpart ["." [digitpart]] | "." digitpart
FloatMantissa(m) ==
    IF Contains(m, ".")
    THEN LET i == FirstIndex(m, ".")
             ip == Before(m, i)
             fp == After(m, i)
         IN  \/ DigitPart(ip) /\ (fp = <<>> \/ DigitPart(fp))
             \/ ip = <<>> /\ DigitPart(fp)
    ELSE DigitPart(m)

FloatWords ==
    { <<"i", "n", "f">>,
      <<"i", "n", "f", "i", "n", "i", "t", "y">>,
      <<"n", "a", "n">> }

\* float(s) does not raise ValueError
FloatText(s) ==
    LET u == Unsigned(Strip(s), {"+", "-"})
        l == Lower(u)
    IN  \/ l \in FloatWords
        \/ IF Contains(l, "e")
           THEN LET i == FirstIndex(l, "e")
                IN  /\ FloatMantissa(Before(u, i))
                    /\ DigitPart(Unsigned(After(u, i), {"+", "-"}))
           ELSE FloatMantissa(u)

JsonWords ==
    { <<"n", "u", "l", "l">>,
      <<"t", "r", "u", "e">>,
      <<"f", "a", "l", "s", "e">>,
      <<"N", "a", "N">>,
      <<"I", "n", "f", "i", "n", "i", "t", "y">>,
      <<"-", "I", "n", "f", "i", "n", "i", "t", "y">> }

\* (0|[1-9]\d*)(\.\d+)?
JsonMantissa(m) ==
    LET ip == IF Contains(m, ".") THEN Before(m, FirstIndex(m, ".")) ELSE m
    IN  /\ Digits(ip)
        /\ ip[1] = "0" => Len(ip) = 1
        /\ Contains(m, ".") => Digits(After(m, FirstIndex(m, ".")))

\* json.loads(s) does not raise, for a text s without quote, bracket or brace
JsonText(s) ==
    LET t == Strip(s)
        u == Unsigned(t, {"-"})
        l == Lower(u)
    IN  \/ t \in JsonWords
        \/ IF Contains(l, "e")
           THEN LET i == FirstIndex(l, "e")
                IN  /\ JsonMantissa(Before(u, i))
                    /\ Digits(Unsigned(After(u, i), {"+", "-"}))
           ELSE JsonMantissa(u)

-----------------------------------------------------------------------------
(* Type coercion engine                                                    *)

SUPPORTED_TYPES ==
    {"string", "number", "boolean", "enum", "url", "duration", "json"}

\* The accepted truthy words of _parse_bool.
TruthyWords ==
    { <<"t", "r", "u", "e">>, <<"1">>, <<"y", "e", "s">>, <<"y">>,
      <<"o", "n">> }

\* _parse_bool with the bug that the value is not lower-cased.
ParseBoolCaseSensitive(value) == value \in TruthyWords

_parse_bool(value) == Lower(value) \in TruthyWords

http == <<"h", "t", "t", "p", ":", "/", "/">>

https == <<"h", "t", "t", "p", "s", ":", "/", "/">>

\* No exception.
NoExc == [type |-> "", msg |-> "", value |-> <<>>, allowed |-> <<>>]

\* A returned value: its Python type, and the bool or the text it holds.
Returned(kind, b, s) ==
    [ok |-> TRUE, kind |-> kind, bool |-> b, text |-> s, exc |-> NoExc]

\* A raised exception: its type, its message's fixed text, and the values
\* interpolated into the message.
Raised(type, msg, value, allowed) ==
    [ok |-> FALSE, kind |-> "", bool |-> FALSE, text |-> <<>>,
     exc |-> [type |-> type, msg |-> msg, value |-> value,
              allowed |-> allowed]]

\* bool(x) of an Optional[List]: None and [] are falsy
Truthy(opt) == opt # <<>> /\ opt[1] # <<>>

\* float(value)
Float(value) ==
    IF FloatText(value)
    THEN Returned("float", FALSE, value)
    ELSE Raised("ValueError", "could not convert string to float", value, <<>>)

\* ParseEnum with the bug that the value is lower-cased before the lookup.
ParseEnumIgnoringCase(value, definition) ==
    IF Truthy(definition.enum)
       /\ Lower(value) \notin Range(definition.enum[1])
    THEN Raised("ValueError", "Value not allowed; expected one of", value,
                definition.enum[1])
    ELSE Returned("str", FALSE, value)

\* The branch of _parse_value for type enum.
ParseEnum(value, definition) ==
    IF Truthy(definition.enum) /\ value \notin Range(definition.enum[1])
    THEN Raised("ValueError", "Value not allowed; expected one of", value,
                definition.enum[1])
    ELSE Returned("str", FALSE, value)

\* ParseUrl with the bug that only the http:// prefix is accepted.
ParseUrlHttpOnly(value) ==
    IF ~StartsWith(value, http)
    THEN Raised("ValueError", "URL must start with http:// or https://",
                <<>>, <<>>)
    ELSE Returned("str", FALSE, value)

\* The branch of _parse_value for type url.
ParseUrl(value) ==
    IF ~(StartsWith(value, http) \/ StartsWith(value, https))
    THEN Raised("ValueError", "URL must start with http:// or https://",
                <<>>, <<>>)
    ELSE Returned("str", FALSE, value)

\* The branch of _parse_value for type duration.
ParseDuration(value) ==
    IF EndsWith(value, <<"s">>)
    THEN Float(SubSeq(value, 1, Len(value) - 1))
    ELSE Float(value)

\* The branch of _parse_value for type json.
ParseJson(value) ==
    IF JsonText(value)
    THEN Returned("json", FALSE, value)
    ELSE Raised("JSONDecodeError", "invalid JSON", value, <<>>)

_parse_value(value, definition) ==
    IF definition.type = "string" THEN Returned("str", FALSE, value)
    ELSE IF definition.type = "number" THEN Float(value)
    ELSE IF definition.type = "boolean"
    THEN Returned("bool", _parse_bool(value), <<>>)
    ELSE IF definition.type = "enum" THEN ParseEnum(value, definition)
    ELSE IF definition.type = "url" THEN ParseUrl(value)
    ELSE IF definition.type = "duration" THEN ParseDuration(value)
    ELSE IF definition.type = "json" THEN ParseJson(value)
    ELSE Returned("str", FALSE, value)

-----------------------------------------------------------------------------
(* Env-file loader                                                         *)

\* LoadLine with the bug that the line is split at its last "=" (rsplit).
LoadLineSplitLast(data, line) ==
    LET stripped == Strip(line)
    IN  IF stripped = <<>> \/ StartsWith(stripped, <<"#">>) THEN data
        ELSE IF ~Contains(stripped, "=") THEN data
        ELSE LET i == CHOOSE k \in 1..Len(stripped) :
                         /\ stripped[k] = "="
                         /\ \A j \in (k + 1)..Len(stripped) : stripped[j] # "="
             IN  Put(data, Strip(Before(stripped, i)),
                     Strip(After(stripped, i)))

\* One pass of the loop of load_env_file over a line.
LoadLine(data, line) ==
    LET stripped == Strip(line)
    IN  IF stripped = <<>> \/ StartsWith(stripped, <<"#">>) THEN data
        ELSE IF ~Contains(stripped, "=") THEN data
        ELSE LET i == FirstIndex(stripped, "=")
             IN  Put(data, Strip(Before(stripped, i)),
                     Strip(After(stripped, i)))

RECURSIVE LoadLines(_)
LoadLines(lines) ==
    IF lines = <<>> THEN <<>>
    ELSE LoadLine(LoadLines(SubSeq(lines, 1, Len(lines) - 1)),
                  lines[Len(lines)])

\* The lines a text-mode file handle iterates over: each ends with its
\* newline, but for a last line that has none.
RECURSIVE FileLines(_)
FileLines(text) ==
    IF text = <<>> THEN <<>>
    ELSE IF Contains(text, "\n")
    THEN LET i == FirstIndex(text, "\n")
         IN  <<SubSeq(text, 1, i)>> \o FileLines(After(text, i))
    ELSE <<text>>

\* A path is the file's name, whether the file exists, and its text.
load_env_file(path) ==
    IF ~path.exists THEN <<>> ELSE LoadLines(FileLines(path.text))

-----------------------------------------------------------------------------
(* Environment validator                                                   *)

\* "[{env_name}] missing required variable '{name}' in {env_file}"
MissingError(env_name, name, env_file) ==
    [kind |-> "missing required variable", env |-> env_name, name |-> name,
     file |-> env_file.name, exc |-> NoExc]

\* "[{env_name}] variable '{name}' invalid: {exc}"
InvalidError(env_name, name, exc) ==
    [kind |-> "invalid", env |-> env_name, name |-> name, file |-> "",
     exc |-> exc]

\* "[{env_name}] extra variable '{name}' present in {env_file}"
ExtraError(env_name, name, env_file) ==
    [kind |-> "extra variable present", env |-> env_name, name |-> name,
     file |-> env_file.name, exc |-> NoExc]

\* CheckDeclared with the bug that a default does not excuse the absence of
\* a required variable.
CheckDeclaredIgnoringDefault(name, definition, provided, env_name, env_file) ==
    IF name \notin Keys(provided)
    THEN IF definition.required
         THEN <<MissingError(env_name, name, env_file)>>
         ELSE <<>>
    ELSE LET parsed == _parse_value(Get(provided, name), definition)
         IN  IF parsed.ok THEN <<>>
             ELSE <<InvalidError(env_name, name, parsed.exc)>>

\* The body of the loop over declared.items(), for one item.
CheckDeclared(name, definition, provided, env_name, env_file) ==
    IF name \notin Keys(provided)
    THEN IF definition.required /\ definition.default = <<>>
         THEN <<MissingError(env_name, name, env_file)>>
         ELSE <<>>
    ELSE LET parsed == _parse_value(Get(provided, name), definition)
         IN  IF parsed.ok THEN <<>>
             ELSE <<InvalidError(env_name, name, parsed.exc)>>

\* The loop over declared.items().
RECURSIVE DeclaredErrors(_, _, _, _)
DeclaredErrors(declared, provided, env_name, env_file) ==
    IF declared = <<>> THEN <<>>
    ELSE CheckDeclared(declared[1][1], declared[1][2], provided, env_name,
                       env_file)
         \o DeclaredErrors(Tail(declared), provided, env_name, env_file)

\* ExtraOrder with the bug that the names are sorted without regard to case.
RECURSIVE ExtraOrderIgnoringCase(_)
ExtraOrderIgnoringCase(extra) ==
    IF extra = {} THEN <<>>
    ELSE LET m == CHOOSE x \in extra :
                     \A y \in extra : ~StrLess(Lower(y), Lower(x))
         IN  <<m>> \o ExtraOrderIgnoringCase(extra \ {m})

\* The order in which the extra names are reported.
ExtraOrder(extra) == Sorted(extra)

validate_env(config, env_name, env_file) ==
    LET declared == ByName(EnvGet(config, env_name))
        provided == load_env_file(env_file)
        extra    == ExtraOrder(Keys(provided) \ Keys(declared))
    IN  DeclaredErrors(declared, provided, env_name, env_file)
        \o [i \in 1..Len(extra) |-> ExtraError(env_name, extra[i], env_file)]

-----------------------------------------------------------------------------
(* Schema validator                                                        *)

\* A schema error: which rule, and the values interpolated into its text.
SchemaError(kind, env_name, name, type) ==
    [kind |-> kind, env |-> env_name, name |-> name, type |-> type]

\* VariableErrors with the bug that a default is accepted on a required
\* variable.
VariableErrorsNoDefaultRule(var, env_name) ==
    (IF var.type \notin SUPPORTED_TYPES
     THEN <<SchemaError("uses unsupported type", env_name, var.name, var.type)>>
     ELSE <<>>)
    \o
    (IF var.type = "enum" /\ ~Truthy(var.enum)
     THEN <<SchemaError("is enum but enum values are empty", env_name,
                        var.name, "")>>
     ELSE <<>>)

\* VariableDefinition.validate: the errors it appends
VariableErrors(var, env_name) ==
    (IF var.type \notin SUPPORTED_TYPES
     THEN <<SchemaError("uses unsupported type", env_name, var.name, var.type)>>
     ELSE <<>>)
    \o
    (IF var.type = "enum" /\ ~Truthy(var.enum)
     THEN <<SchemaError("is enum but enum values are empty", env_name,
                        var.name, "")>>
     ELSE <<>>)
    \o
    (IF var.default # <<>> /\ var.required
     THEN <<SchemaError("is marked required but also provides a default",
                        env_name, var.name, "")>>
     ELSE <<>>)

\* EnvironmentErrors with the bug that a duplicate is reported and then
\* skipped (continue) without checking its other rules.
RECURSIVE EnvironmentErrorsSkipDuplicate(_, _, _, _)
EnvironmentErrorsSkipDuplicate(variables, i, names, env_name) ==
    IF i > Len(variables) THEN <<>>
    ELSE LET var == variables[i]
         IN  (IF var.name \in names
              THEN <<SchemaError("is declared more than once", env_name,
                                 var.name, "")>>
              ELSE VariableErrors(var, env_name))
             \o EnvironmentErrorsSkipDuplicate(variables, i + 1,
                                               names \cup {var.name}, env_name)

\* The inner loop of Config.validate from the i-th variable on, names being
\* the names seen before it.
RECURSIVE EnvironmentErrors(_, _, _, _)
EnvironmentErrors(variables, i, names, env_name) ==
    IF i > Len(variables) THEN <<>>
    ELSE LET var == variables[i]
         IN  (IF var.name \in names
              THEN <<SchemaError("is declared more than once", env_name,
                                 var.name, "")>>
              ELSE <<>>)
             \o VariableErrors(var, env_name)
             \o EnvironmentErrors(variables, i + 1, names \cup {var.name},
                                  env_name)

\* The outer loop of Config.validate.
RECURSIVE EnvironmentsErrors(_)
EnvironmentsErrors(environments) ==
    IF environments = <<>> THEN <<>>
    ELSE EnvironmentErrors(environments[1][2], 1, {}, environments[1][1])
         \o EnvironmentsErrors(Tail(environments))

\* Config.validate
ConfigValidate(config) ==
    EnvironmentsErrors(config.environments)
    \o (IF config.targets = <<>>
        THEN <<SchemaError("At least one generation target must be defined",
                           "", <<>>, "")>>
        ELSE <<>>)

validate_schema(config) ==
    LET errors == ConfigValidate(config)
    IN  [ok |-> errors = <<>>, errors |-> errors]

-----------------------------------------------------------------------------
(* Drift comparator                                                        *)

\* "Variable '{name}' declared in {a} but missing in {b}."
DriftError(name, a, b) ==
    [kind |-> "declared but missing", name |-> name, declared_in |-> a,
     missing_in |-> b]

\* diff_environments with the bug that whole definitions are compared: a
\* name whose definition differs on the other side counts as missing there.
DiffByDefinition(config, left_env, right_env) ==
    LET left  == ByName(EnvGet(config, left_env))
        right == ByName(EnvGet(config, right_env))
        missing_in_right == Sorted({k \in Keys(left) :
                                       k \notin Keys(right)
                                       \/ Get(right, k) # Get(left, k)})
        missing_in_left  == Sorted({k \in Keys(right) :
                                       k \notin Keys(left)
                                       \/ Get(left, k) # Get(right, k)})
    IN  [i \in 1..Len(missing_in_right) |->
            DriftError(missing_in_right[i], left_env, right_env)]
        \o
        [i \in 1..Len(missing_in_left) |->
            DriftError(missing_in_left[i], right_env, left_env)]

diff_environments(config, left_env, right_env) ==
    LET left  == ByName(EnvGet(config, left_env))
        right == ByName(EnvGet(config, right_env))
        missing_in_right == Sorted(Keys(left) \ Keys(right))
        missing_in_left  == Sorted(Keys(right) \ Keys(left))
    IN  [i \in 1..Len(missing_in_right) |->
            DriftError(missing_in_right[i], left_env, right_env)]
        \o
        [i \in 1..Len(missing_in_left) |->
            DriftError(missing_in_left[i], right_env, left_env)]

-----------------------------------------------------------------------------
(* Inputs                                                                  *)

\* Longest tail appended to a stem of ParseStems.
MaxTail == 1

\* Most variables declared in a validated environment.
MaxVars == 3

\* Most lines of a validated env file.
MaxLines == 2

\* Most variables declared in a configuration given to the schema validator.
MaxSchemaVars == 3

\* Most variables declared in a configuration given to the drift comparator.
MaxDriftVars == 3

\* Most characters of an env file given to the loader.
MaxFileLen == 6

Var(name, type, required, default, enum) ==
    [name |-> name, type |-> type, required |-> required,
     default |-> default, enum |-> enum]

Target(language, out_dir) == [language |-> language, out_dir |-> out_dir]

ConfigOf(environments, targets) ==
    [environments |-> environments, targets |-> targets]

File(name, exists, text) == [name |-> name, exists |-> exists, text |-> text]

Some(x) == <<x>>

None == <<>>

\* Raw strings given to the type coercion engine: a stem and a short tail.
ParseStems ==
    { <<>>, http, https,
      <<"h", "t", "t", "p", ":", "/">>,
      <<"H", "T", "T", "P", ":", "/", "/">>,
      <<" ">> \o http,
      <<"f", "t", "p", ":", "/", "/">>,
      <<"t", "r", "u", "e">>, <<"T", "R", "U", "E">>, <<"T", "r", "u", "e">>,
      <<"y", "e", "s">>, <<"Y", "E", "S">>, <<"y">>, <<"Y">>,
      <<"o", "n">>, <<"O", "n">>, <<"1">>, <<"0">>,
      <<"m", "a", "y", "b", "e">>, <<"f", "a", "l", "s", "e">>,
      <<"a">>, <<"b">>, <<"A">>, <<"c">> }

ParseTailChars == {"a", "s", "1"}

ParseDefinitions ==
    { Var(<<"A">>, t, TRUE, None, e) :
        t \in SUPPORTED_TYPES \cup {"bogus"},
        e \in {None, Some(<<>>), Some(<<<<"a">>, <<"b">>>>)} }

\* Declared variables of a validated environment.
EnvVarPool ==
    { Var(<<"A">>, "url", TRUE, None, None),
      Var(<<"A">>, "boolean", FALSE, None, None),
      Var(<<"A">>, "url", TRUE, Some(<<"1">>), None),
      Var(<<"B">>, "boolean", TRUE, None, None),
      Var(<<"B">>, "url", FALSE, Some(http \o <<"a">>), None),
      Var(<<"B">>, "number", FALSE, None, None) }

EnvNames == {"development", "production"}

EnvLinePool ==
    { <<"A", "=">> \o http \o <<"a">>,
      <<"A", "=">> \o https,
      <<"A", "=", "1">>,
      <<"B", "=", "a">>,
      <<"b", "=", "1">>,
      <<"C", "=", "1">> }

\* "\n".join(lines) + "\n" for a non-empty list of lines
RECURSIVE JoinLines(_)
JoinLines(lines) ==
    IF lines = <<>> THEN <<>>
    ELSE Head(lines) \o <<"\n">> \o JoinLines(Tail(lines))

\* Declared variables of a configuration given to the schema validator.
SchemaVarPool ==
    { Var(<<"A">>, t, TRUE, None, None) :
        t \in (SUPPORTED_TYPES \ {"enum"}) \cup {"bogus"} }
    \cup
    { Var(<<"A">>, "enum", TRUE, None, Some(<<<<"a">>, <<"b">>>>)),
      Var(<<"A">>, "enum", TRUE, Some(<<"a">>), Some(<<>>)),
      Var(<<"B">>, "enum", FALSE, None, None),
      Var(<<"B">>, "url", TRUE, Some(<<"1">>), None),
      Var(<<"B">>, "bogus", TRUE, Some(<<"1">>), Some(<<<<"a">>>>)),
      Var(<<"B">>, "string", FALSE, Some(<<>>), None) }

\* Declared variables of a configuration given to the drift comparator.
DriftVarPool ==
    { Var(n, tr[1], tr[2], tr[3], None) :
        n \in {<<"A">>, <<"A", "B">>, <<"B">>, <<"a">>},
        tr \in {<<"string", TRUE, None>>, <<"number", FALSE, Some(<<"1">>)>>} }

EnvironmentNames == {"development", "production"}

DriftNames == {"development", "production", "staging"}

\* The characters of the env files given to the loader.
LoadChars == {"A", "b", "=", "#", " ", "\n"}

Targets == <<Target("ts", "generated")>>

-----------------------------------------------------------------------------
(* The operations.  A behaviour is one call of a function of the library:  *)
(* call records the function and its arguments, result what it returned.   *)

Called(c) ==
    /\ pc = "called"
    /\ call = c
    /\ result = <<>>

\* A call of _parse_value: a raw string and a variable definition.
CalledParse ==
    \E stem \in ParseStems, k \in 0..MaxTail, definition \in ParseDefinitions :
       \E tail \in [1..k -> ParseTailChars] :
          Called([op |-> "_parse_value", value |-> stem \o tail,
                  definition |-> definition])

\* A call of load_env_file: a missing file, or a file with any short text.
CalledLoad ==
    \/ Called([op |-> "load_env_file", path |-> File(".env", FALSE, <<>>)])
    \/ \E k \in 0..MaxFileLen :
          \E text \in [1..k -> LoadChars] :
             Called([op |-> "load_env_file", path |-> File(".env", TRUE, text)])

\* A call of validate_env: a configuration whose development environment
\* declares at most MaxVars variables, either environment name, and a file
\* that is missing or holds at most MaxLines lines.
CalledEnv ==
    \E k \in 0..MaxVars, env_name \in EnvNames :
       \E vs \in [1..k -> EnvVarPool] :
          LET config == ConfigOf(<<<<"development", vs>>>>, Targets)
          IN  \/ Called([op |-> "validate_env", config |-> config,
                         env_name |-> env_name,
                         env_file |-> File(".env", FALSE, <<>>)])
              \/ \E n \in 0..MaxLines :
                    \E ls \in [1..n -> EnvLinePool] :
                       Called([op |-> "validate_env", config |-> config,
                               env_name |-> env_name,
                               env_file |-> File(".env", TRUE, JoinLines(ls))])

\* The configurations of at most two environments that declare at most n
\* variables in all, drawn from pool: P(environments) holds of one of them.
TwoEnvironments(pool, n, P(_)) ==
    \/ P(<<>>)
    \/ \E e \in EnvironmentNames, k \in 0..n :
          \E vs \in [1..k -> pool] : P(<<<<e, vs>>>>)
    \/ \E e \in EnvironmentNames, f \in EnvironmentNames, k \in 0..n :
          /\ e # f
          /\ \E j \in 0..(n - k) :
                \E vs \in [1..k -> pool], ws \in [1..j -> pool] :
                   P(<<<<e, vs>>, <<f, ws>>>>)

\* A call of validate_schema: at most MaxSchemaVars variables, with or
\* without a generation target.
CalledSchema ==
    \E targets \in {<<>>, Targets} :
       LET P(environments) ==
               Called([op |-> "validate_schema",
                       config |-> ConfigOf(environments, targets)])
       IN  TwoEnvironments(SchemaVarPool, MaxSchemaVars, P)

\* A call of diff_environments: at most MaxDriftVars variables, and two
\* environment names, either of which may be undeclared.
CalledDrift ==
    \E left_env \in DriftNames, right_env \in DriftNames :
       LET P(environments) ==
               Called([op |-> "diff_environments",
                       config |-> ConfigOf(environments, Targets),
                       left_env |-> left_env, right_env |-> right_env])
       IN  TwoEnvironments(DriftVarPool, MaxDriftVars, P)

ParseValue ==
    /\ pc = "called"
    /\ call.op = "_parse_value"
    /\ result' = _parse_value(call.value, call.definition)
    /\ pc' = "returned"
    /\ UNCHANGED call

LoadEnvFile ==
    /\ pc = "called"
    /\ call.op = "load_env_file"
    /\ result' = load_env_file(call.path)
    /\ pc' = "returned"
    /\ UNCHANGED call

ValidateEnv ==
    /\ pc = "called"
    /\ call.op = "validate_env"
    /\ result' = validate_env(call.config, call.env_name, call.env_file)
    /\ pc' = "returned"
    /\ UNCHANGED call

ValidateSchema ==
    /\ pc = "called"
    /\ call.op = "validate_schema"
    /\ result' = validate_schema(call.config)
    /\ pc' = "returned"
    /\ UNCHANGED call

DiffEnvironments ==
    /\ pc = "called"
    /\ call.op = "diff_environments"
    /\ result' = diff_environments(call.config, call.left_env, call.right_env)
    /\ pc' = "returned"
    /\ UNCHANGED call

Init ==
    \/ CalledParse
    \/ CalledLoad
    \/ CalledEnv
    \/ CalledSchema
    \/ CalledDrift

Next ==
    \/ ParseValue
    \/ LoadEnvFile
    \/ ValidateEnv
    \/ ValidateSchema
    \/ DiffEnvironments

Spec == Init /\ [][Next]_vars

\* The type coercion engine and the environment validator that calls it.
InitEnv == CalledParse \/ CalledEnv

NextEnv == ParseValue \/ ValidateEnv

SpecEnv == InitEnv /\ [][NextEnv]_vars

\* The schema validator.
InitSchema == CalledSchema

NextSchema == ValidateSchema

SpecSchema == InitSchema /\ [][NextSchema]_vars

\* The drift comparator.
InitDrift == CalledDrift

NextDrift == DiffEnvironments

SpecDrift == InitDrift /\ [][NextDrift]_vars

\* The env-file loader.
InitLoad == CalledLoad

NextLoad == LoadEnvFile

SpecLoad == InitLoad /\ [][NextLoad]_vars

-----------------------------------------------------------------------------
(* Properties of the environment validator                                 *)

\* The call of op has returned.
Finished(op) == pc = "returned" /\ call.op = op

\* The declarations of the validated environment, in declaration order.
Declared == EnvGet(call.config, call.env_name)

DeclaredNames == {Declared[i].name : i \in 1..Len(Declared)}

\* The declaration of name n that is in force: the last one.
InForce(n) ==
    Declared[CHOOSE i \in 1..Len(Declared) :
                /\ Declared[i].name = n
                /\ \A j \in (i + 1)..Len(Declared) : Declared[j].name # n]

\* The position of the first declaration of name n.
FirstDeclared(n) ==
    CHOOSE i \in 1..Len(Declared) :
       /\ Declared[i].name = n
       /\ \A j \in 1..(i - 1) : Declared[j].name # n

\* The provided key -> value mapping, and its keys.
Provided == load_env_file(call.env_file)

ProvidedKeys == Keys(Provided)

\* The positions of the errors that name n.
ErrorsAbout(n) == {i \in 1..Len(result) : result[i].name = n}

ErrorsOfKind(kind) == {i \in 1..Len(result) : result[i].kind = kind}

\* C1: validate_env reports "missing required variable '<name>'" for a
\* declared name exactly when the name is absent from the provided mapping,
\* the declaration in force is required and its default is unset; the error
\* names the environment and the file; a declared name that is absent but
\* optional, or absent with a default, gets no error of any kind (it is not
\* parsed); no undeclared name is reported missing.
C1_MissingIffRequiredWithoutDefault ==
    Finished("validate_env") =>
       /\ \A n \in DeclaredNames :
             LET d       == InForce(n)
                 missing == ErrorsAbout(n)
                               \cap ErrorsOfKind("missing required variable")
                 absent  == n \notin ProvidedKeys
             IN  /\ (missing # {})
                       <=> (absent /\ d.required = TRUE /\ d.default = None)
                 /\ \A i \in missing :
                       /\ result[i].env = call.env_name
                       /\ result[i].file = call.env_file.name
                 /\ (absent /\ ~(d.required = TRUE /\ d.default = None))
                       => ErrorsAbout(n) = {}
       /\ \A i \in ErrorsOfKind("missing required variable") :
             result[i].name \in DeclaredNames

\* C1 witness: one declared name is absent, required and without default, and
\* is reported missing; another is absent, required and has a default, and
\* gets no error.
C1_Witness ==
    /\ Finished("validate_env")
    /\ \E n \in DeclaredNames, m \in DeclaredNames :
          /\ n \notin ProvidedKeys
          /\ ErrorsAbout(n) \cap ErrorsOfKind("missing required variable") # {}
          /\ m \notin ProvidedKeys
          /\ InForce(m).required
          /\ InForce(m).default # None
          /\ ErrorsAbout(m) = {}

\* C2: validate_env reports "extra variable '<name>' present" exactly once
\* for each provided key that is not a declared name and never for a declared
\* name; the extra errors are in ascending code-point order of the key and
\* come after every missing or invalid error.
C2_ExtrasOnceSortedLast ==
    Finished("validate_env") =>
       LET extras     == ErrorsOfKind("extra variable present")
           undeclared == ProvidedKeys \ DeclaredNames
       IN  /\ \A k \in undeclared :
                 Cardinality(ErrorsAbout(k) \cap extras) = 1
           /\ \A i \in extras : result[i].name \in undeclared
           /\ \A i \in extras, j \in extras :
                 i < j => StrLess(result[i].name, result[j].name)
           /\ \A i \in extras, j \in 1..Len(result) :
                 j \notin extras => j < i

\* C2 witness: two extra keys that the file gives in descending order are
\* reported after the error of a declared variable.
C2_Witness ==
    /\ Finished("validate_env")
    /\ Len(result) = 3
    /\ result[1].kind # "extra variable present"
    /\ result[2].kind = "extra variable present"
    /\ result[3].kind = "extra variable present"
    /\ Provided[1][1] = result[3].name
    /\ Provided[2][1] = result[2].name

\* What the check of the declared name n must report: whether an error, by
\* the declaration in force alone.
MustFail(n, provided) ==
    IF n \notin Keys(provided)
    THEN InForce(n).required /\ InForce(n).default = None
    ELSE ~_parse_value(Get(provided, n), InForce(n)).ok

\* C10: validate_env reports at most one missing or invalid error for each
\* declared name; whether a name gets one depends on that name alone (an
\* error for one variable never suppresses the check of a later one) and,
\* when the name is declared more than once, on its last declaration; the
\* errors of declared names are in the order of the first declaration of
\* each name.
C10_OneErrorPerNameLastDeclarationWins ==
    Finished("validate_env") =>
       LET own == {i \in 1..Len(result) :
                      result[i].kind \in {"missing required variable", "invalid"}}
           provided == Provided
       IN  /\ \A i \in own : result[i].name \in DeclaredNames
           /\ \A n \in DeclaredNames :
                 /\ Cardinality(ErrorsAbout(n) \cap own) <= 1
                 /\ (ErrorsAbout(n) \cap own # {}) <=> MustFail(n, provided)
           /\ \A i \in own, j \in own :
                 i < j =>
                    FirstDeclared(result[i].name) < FirstDeclared(result[j].name)

\* C10 witness: a name is declared, then another, then the first again with
\* a different definition; both names get an error, the redeclared one first,
\* and the first declaration of the redeclared name would not have failed.
C10_Witness ==
    /\ Finished("validate_env")
    /\ Len(Declared) = 3
    /\ Declared[1].name = Declared[3].name
    /\ Declared[1].name # Declared[2].name
    /\ Len(result) >= 2
    /\ result[1].name = Declared[1].name
    /\ result[2].name = Declared[2].name
    /\ result[1].kind = "invalid"
    /\ Declared[1].type = "boolean"

-----------------------------------------------------------------------------
(* Properties of the type coercion engine                                  *)

\* The allowed values of an enum definition: none when the list is absent.
Allowed(definition) ==
    IF definition.enum = None THEN <<>> ELSE definition.enum[1]

\* The message of a failed enum parse names the value and the allowed list.
NamesAllowed(r, value, definition) ==
    /\ r.exc.type = "ValueError"
    /\ r.exc.msg = "Value not allowed; expected one of"
    /\ r.exc.value = value
    /\ r.exc.allowed = Allowed(definition)

\* C3 as stated: for a definition of type enum, _parse_value succeeds if and
\* only if the raw string is exactly one of definition.enum, and in every
\* other case, an empty or absent list included, fails with a message naming
\* the allowed set.
C3_EnumSucceedsIffListed ==
    (Finished("_parse_value") /\ call.definition.type = "enum") =>
       /\ result.ok <=> call.value \in Range(Allowed(call.definition))
       /\ ~result.ok => NamesAllowed(result, call.value, call.definition)

\* C3 as amended: for a definition of type enum whose list is non-empty,
\* _parse_value succeeds if and only if the raw string is exactly one of
\* definition.enum and otherwise fails with a message naming the allowed
\* set; when the list is empty or absent it succeeds for every raw string.
\* A success returns the raw string unchanged.
C3_EnumSucceedsIffListedOrNoList ==
    (Finished("_parse_value") /\ call.definition.type = "enum") =>
       /\ result.ok <=> \/ Allowed(call.definition) = <<>>
                        \/ call.value \in Range(Allowed(call.definition))
       /\ ~result.ok => NamesAllowed(result, call.value, call.definition)
       /\ result.ok => result.kind = "str" /\ result.text = call.value

\* C3 witness: a raw string that differs from a listed value only by case is
\* rejected with the message naming the list.
C3_Witness ==
    /\ Finished("_parse_value")
    /\ call.definition.type = "enum"
    /\ Lower(call.value) \in Range(Allowed(call.definition))
    /\ ~result.ok
    /\ result.exc.allowed = <<<<"a">>, <<"b">>>>

\* The spellings that read as true.
C4_TrueWords ==
    { <<"t", "r", "u", "e">>, <<"1">>, <<"y", "e", "s">>, <<"y">>,
      <<"o", "n">> }

\* a and b are the same letter in either case, or the same character.
SameCharIgnoringCase(a, b) ==
    \/ a = b
    \/ /\ Ord(a) >= 65 /\ Ord(a) <= 90 /\ Ord(b) = Ord(a) + 32
    \/ /\ Ord(b) >= 65 /\ Ord(b) <= 90 /\ Ord(a) = Ord(b) + 32

SameIgnoringCase(s, t) ==
    /\ Len(s) = Len(t)
    /\ \A i \in 1..Len(s) : SameCharIgnoringCase(s[i], t[i])

\* C4: for a definition of type boolean, _parse_value never fails; it
\* returns true if and only if the raw string is, ignoring case, one of
\* "true", "1", "yes", "y", "on", and false for every other string; so
\* validate_env reports no invalid error for a boolean variable that is
\* present.
C4_BooleanNeverFails ==
    /\ (Finished("_parse_value") /\ call.definition.type = "boolean") =>
          /\ result.ok
          /\ result.kind = "bool"
          /\ result.bool <=> \E w \in C4_TrueWords : SameIgnoringCase(call.value, w)
    /\ Finished("validate_env") =>
          \A n \in DeclaredNames \cap ProvidedKeys :
             InForce(n).type = "boolean" => ErrorsAbout(n) = {}

\* C4 witness: a truthy word with upper-case letters parses as true.
C4_Witness ==
    /\ Finished("_parse_value")
    /\ call.definition.type = "boolean"
    /\ call.value # Lower(call.value)
    /\ result.ok
    /\ result.bool

\* The value starts with http:// or https://.
HasHttpPrefix(value) ==
    \/ Len(value) >= 7 /\ SubSeq(value, 1, 7) = <<"h", "t", "t", "p", ":", "/", "/">>
    \/ Len(value) >= 8 /\ SubSeq(value, 1, 8) = <<"h", "t", "t", "p", "s", ":", "/", "/">>

\* The text of the error holds "invalid" and "http".
MentionsInvalidAndHttp(e) ==
    /\ e.kind = "invalid"
    /\ e.exc.msg = "URL must start with http:// or https://"

\* C5: for a declared variable of type url that is present in the provided
\* mapping, validate_env reports exactly one error, holding "invalid" and
\* "http", if the value starts with neither http:// nor https://, and no
\* error if it starts with either, whatever follows the prefix.
C5_UrlErrorIffNoHttpPrefix ==
    Finished("validate_env") =>
       LET provided == Provided
       IN  \A n \in DeclaredNames \cap Keys(provided) :
              InForce(n).type = "url" =>
                 IF HasHttpPrefix(Get(provided, n))
                 THEN ErrorsAbout(n) = {}
                 ELSE /\ Cardinality(ErrorsAbout(n)) = 1
                      /\ \A i \in ErrorsAbout(n) :
                            MentionsInvalidAndHttp(result[i])

\* C5 witness: a url variable given a value without the prefix gets its one
\* error in a call that reports other errors as well.
C5_Witness ==
    /\ Finished("validate_env")
    /\ Len(result) >= 2
    /\ \E n \in DeclaredNames \cap ProvidedKeys :
          /\ InForce(n).type = "url"
          /\ ~HasHttpPrefix(Get(Provided, n))
          /\ Cardinality(ErrorsAbout(n)) = 1

-----------------------------------------------------------------------------
(* Properties of the schema validator                                      *)

\* The closed set of variable types.
C6_Types == {"string", "number", "boolean", "enum", "url", "duration", "json"}

\* The environments of the validated configuration, and the variables the
\* e-th of them declares.
Environments == call.config.environments

Variables(e) == Environments[e][2]

\* Every declaration of the configuration: environment e, position i.
Occurrences ==
    UNION { {<<e, i>> : i \in 1..Len(Variables(e))} :
            e \in 1..Len(Environments) }

VarAt(o) == Variables(o[1])[o[2]]

\* The rules a declaration can break.
Repeats(o) == \E j \in 1..(o[2] - 1) : Variables(o[1])[j].name = VarAt(o).name

Unsupported(o) == VarAt(o).type \notin C6_Types

EnumWithoutValues(o) ==
    /\ VarAt(o).type = "enum"
    /\ VarAt(o).enum = None \/ VarAt(o).enum = Some(<<>>)

RequiredWithDefault(o) == VarAt(o).default # None /\ VarAt(o).required = TRUE

\* C6: validate_schema returns ok = true if and only if its error list is
\* empty, and the list is empty if and only if no environment declares a
\* name twice, every type is in the closed set, every enum variable has a
\* non-empty enum list, no variable has a default together with required =
\* true, and the targets list is non-empty.
C6_OkIffSchemaClean ==
    Finished("validate_schema") =>
       /\ result.ok <=> result.errors = <<>>
       /\ result.errors = <<>> <=>
             /\ \A o \in Occurrences :
                   /\ ~Repeats(o)
                   /\ ~Unsupported(o)
                   /\ ~EnumWithoutValues(o)
                   /\ ~RequiredWithDefault(o)
             /\ call.config.targets # <<>>

\* C6 witness: a configuration with a target, an enum variable with values
\* and an optional variable with a default passes.
C6_Witness ==
    /\ Finished("validate_schema")
    /\ result.ok
    /\ \E o \in Occurrences, q \in Occurrences :
          /\ VarAt(o).type = "enum"
          /\ VarAt(q).default # None

\* The errors of one kind that name variable name of environment env_name.
SchemaErrors(kind, env_name, name) ==
    {k \in 1..Len(result.errors) :
        /\ result.errors[k].kind = kind
        /\ result.errors[k].env = env_name
        /\ result.errors[k].name = name}

\* The declarations of the same name in the same environment as o.
Namesakes(o) ==
    {q \in Occurrences : q[1] = o[1] /\ VarAt(q).name = VarAt(o).name}

\* C7: validate_schema reports every violation: each declaration adds one
\* error for each rule it breaks (unsupported type, enum without values,
\* required with default), each declaration of a name after the first adds
\* one duplicate error and is still checked against the other rules, every
\* environment is checked, and an empty targets list adds its error to those
\* of the variables; nothing else is reported.
C7_EveryViolationReported ==
    Finished("validate_schema") =>
       LET errors == result.errors
           Count(kind, o, Breaks(_)) ==
               Cardinality(SchemaErrors(kind, Environments[o[1]][1], VarAt(o).name))
                  = Cardinality({q \in Namesakes(o) : Breaks(q)})
           no_targets == {k \in 1..Len(errors) :
                             errors[k].kind =
                                "At least one generation target must be defined"}
       IN  /\ \A o \in Occurrences :
                 /\ Count("is declared more than once", o, Repeats)
                 /\ Count("uses unsupported type", o, Unsupported)
                 /\ Count("is enum but enum values are empty", o, EnumWithoutValues)
                 /\ Count("is marked required but also provides a default", o,
                          RequiredWithDefault)
           /\ Cardinality(no_targets) = (IF call.config.targets = <<>> THEN 1 ELSE 0)
           /\ Len(errors) =
                 Cardinality({o \in Occurrences : Repeats(o)})
                 + Cardinality({o \in Occurrences : Unsupported(o)})
                 + Cardinality({o \in Occurrences : EnumWithoutValues(o)})
                 + Cardinality({o \in Occurrences : RequiredWithDefault(o)})
                 + Cardinality(no_targets)

\* C7 witness: the first environment declares a name twice, the second
\* declaration breaking two more rules; the second environment has an error
\* of its own; there is no target: five errors at least, the last the
\* target's.
C7_Witness ==
    /\ Finished("validate_schema")
    /\ Len(Environments) = 2
    /\ Len(Variables(1)) = 2
    /\ Repeats(<<1, 2>>)
    /\ EnumWithoutValues(<<1, 2>>)
    /\ RequiredWithDefault(<<1, 2>>)
    /\ Len(Variables(2)) = 1
    /\ Unsupported(<<2, 1>>)
    /\ call.config.targets = <<>>
    /\ Len(result.errors) >= 5
    /\ result.errors[Len(result.errors)].env = ""

-----------------------------------------------------------------------------
(* Properties of the drift comparator                                      *)

\* The names an environment of the compared configuration declares; none
\* when the configuration has no such environment.
NamesOf(env_name) ==
    LET variables == EnvGet(call.config, env_name)
    IN  {variables[i].name : i \in 1..Len(variables)}

\* The messages at positions from..to say, in ascending order of the name and
\* once for each name of names, that the name is declared in a and missing
\* in b.
DriftBlock(from, to, names, a, b) ==
    /\ \A i \in from..to :
          /\ result[i].kind = "declared but missing"
          /\ result[i].declared_in = a
          /\ result[i].missing_in = b
    /\ \A i \in from..to, j \in from..to :
          i < j => StrLess(result[i].name, result[j].name)
    /\ {result[i].name : i \in from..to} = names

\* C8: diff_environments(config, A, B) returns one message for each name of
\* the symmetric difference of the names declared in A and in B: first the
\* names declared in A and missing in B in ascending order, then the names
\* declared in B and missing in A in ascending order; it returns the empty
\* list when A and B declare the same names, whatever the types, required
\* flags and defaults of the variables.
C8_DriftIsSortedNameDifference ==
    Finished("diff_environments") =>
       LET a == NamesOf(call.left_env)
           b == NamesOf(call.right_env)
           k == Cardinality(a \ b)
       IN  /\ Len(result) = k + Cardinality(b \ a)
           /\ DriftBlock(1, k, a \ b, call.left_env, call.right_env)
           /\ DriftBlock(k + 1, Len(result), b \ a, call.right_env, call.left_env)
           /\ a = b => result = <<>>

\* C8 witness: A declares two names that B lacks, in descending order, and B
\* a name that A lacks: three messages, A's two first and sorted.
C8_Witness ==
    /\ Finished("diff_environments")
    /\ Len(result) = 3
    /\ result[2].declared_in = call.left_env
    /\ result[3].declared_in = call.right_env
    /\ EnvGet(call.config, call.left_env)[1].name = result[2].name
    /\ EnvGet(call.config, call.left_env)[2].name = result[1].name

-----------------------------------------------------------------------------
(* Properties of the env-file loader                                       *)

\* The lines of the loaded file, in order.
InputLines == FileLines(call.path.text)

Blank(c) == c \in {" ", "\t", "\n", "\r"}

\* s without its leading and trailing blanks.
Trimmed(s) ==
    LET solid == {i \in 1..Len(s) : ~Blank(s[i])}
    IN  IF solid = {} THEN <<>>
        ELSE LET first == CHOOSE i \in solid : \A j \in solid : i <= j
                 last  == CHOOSE i \in solid : \A j \in solid : j <= i
             IN  [i \in 1..(last - first + 1) |-> s[first + i - 1]]

\* A line that contributes an entry: not blank, its first non-blank character
\* not "#", holding an "=".
Contributes(line) ==
    /\ Trimmed(line) # <<>>
    /\ Trimmed(line)[1] # "#"
    /\ \E i \in 1..Len(line) : line[i] = "="

\* The position of the first "=" of a line that has one.
FirstEquals(line) ==
    CHOOSE i \in 1..Len(line) :
       line[i] = "=" /\ \A j \in 1..(i - 1) : line[j] # "="

KeyOf(line) == Trimmed([i \in 1..(FirstEquals(line) - 1) |-> line[i]])

ValueOf(line) ==
    Trimmed([i \in 1..(Len(line) - FirstEquals(line)) |->
                line[FirstEquals(line) + i]])

\* C9: load_env_file returns a mapping whose keys are the keys of the
\* contributing lines, a line contributing unless it is blank, has "#" as
\* its first non-blank character, or holds no "="; a contributing line is
\* split at its first "=" only, key and value trimmed; a key given by
\* several lines maps to the value of the last of them; a file that does not
\* exist gives the empty mapping.
C9_LoadKeepsLastValuePerKey ==
    Finished("load_env_file") =>
       IF ~call.path.exists THEN result = <<>>
       ELSE LET giving == {i \in 1..Len(InputLines) : Contributes(InputLines[i])}
            IN  /\ Keys(result) = {KeyOf(InputLines[i]) : i \in giving}
                /\ Len(result) = Cardinality(Keys(result))
                /\ \A i \in giving :
                      (\A j \in giving :
                          j > i => KeyOf(InputLines[j]) # KeyOf(InputLines[i]))
                      => Get(result, KeyOf(InputLines[i])) = ValueOf(InputLines[i])

\* C9 witness: two lines give the same key with different values and the
\* mapping holds the second, which is not empty.
C9_Witness ==
    /\ Finished("load_env_file")
    /\ Len(InputLines) >= 2
    /\ Contributes(InputLines[1])
    /\ Contributes(InputLines[2])
    /\ KeyOf(InputLines[1]) = KeyOf(InputLines[2])
    /\ ValueOf(InputLines[1]) # ValueOf(InputLines[2])
    /\ Len(result) = 1
    /\ result[1][2] = ValueOf(InputLines[2])
    /\ result[1][2] # <<>>

====
